---- MODULE Spec2Model ----
(***************************************************************************)
(* A model of the streaming coordinator of the chat client: the React hook *)
(* useMessages (src/src/hooks/useMessages.ts) with the pieces of useChats   *)
(* and App it depends on.                                                   *)
(*                                                                          *)
(* React state (useState) and refs (useRef) are the variables.  A handler   *)
(* that the UI invokes reads the state of the latest render; everything it  *)
(* runs after an await still reads the state it captured when it was        *)
(* invoked (its closure), which is kept in the record of the invocation as  *)
(* "snap".  Refs are read live.  Code between two awaits runs atomically    *)
(* (single-threaded event loop), so one action is one such stretch.         *)
(*                                                                          *)
(* Strings are sequences of one-character strings; canned texts are one     *)
(* token.                                                                   *)
(***************************************************************************)
EXTENDS Integers, Sequences, FiniteSets, TLC

\* ------------------------------------------------------------- bounds
MaxChats   == 2   \* conversation ids the server can hand out
MaxSubmits == 1   \* accepted handleSubmit invocations (Spec, SpecAll)
TwoSubmits == 2   \* accepted handleSubmit invocations (SpecTwo)
MaxFrags   == 2   \* content fragments the streams deliver (Spec, SpecAll)
TwoFrags   == 1   \* content fragments the streams deliver (SpecTwo)
MaxFails   == 1   \* network calls that fail
MaxErrors  == 1   \* streams that end with a transport error
MaxStops   == 1   \* stopQuery invocations awaiting their POST at one time

\* ------------------------------------------------------------- values
NoChat == 0                   \* activeChat === null
NoMsg  == 0                   \* no entry in pendingMessagesRef
NoSub  == 0                   \* no entry in eventSourcesRef
NewKey == 0                   \* the 'new' key of toolStatesMap (activeChat || 'new')
ChatIds == 1..MaxChats

Marker == <<"[", "N", "E", "W", "L", "I", "N", "E", "]">>
DONE   == <<"[", "D", "O", "N", "E", "]">>
Fragments == { <<"h", "i">>, <<"a">> \o Marker \o <<"b">> }

GENERIC_ERROR  == <<"Sorry, I encountered an error while processing your request.">>
INTERRUPTED    == <<"\n", "\n", "(The connection was interrupted. The response may be incomplete.)">>
UPLOAD_ERROR   == <<"Error uploading files or processing request. Please try again.">>
UPLOAD_OK      == <<"Files uploaded successfully.">>
FILES_SHARED   == <<"Files shared">>
IMAGE_ERROR    == <<"Sorry, there was an error generating the image.">>
SERVER_ERROR   == <<"server error text">>

IMG == [name |-> "a.png", type |-> <<"image", "png">>]
DOC == [name |-> "a.pdf", type |-> <<"application", "pdf">>]
FileLists == { <<>>, <<IMG>>, <<DOC>> }
Texts     == { <<>>, <<" ">>, <<"h", "i", " ">> }
\* An optional value is a sequence of at most one element.
OptsSet   == { <<>>, << [size |-> "1024x1024", quality |-> "standard", style |-> "vivid", image |-> <<>>] >>,
               << [size |-> "1024x1024", quality |-> "standard", style |-> "vivid", image |-> <<IMG>>] >> }
\* kbOptions: the knowledge base selected in the form, if any.
KbNames   == { "e-cix" }
NoKb      == { <<>> }
Inputs    == [text : Texts, files : FileLists, opts : OptsSet, kb : NoKb]
\* Without image options (they are read in image-creator mode only).
PlainInputs == [text : { <<>>, <<"h", "i", " ">> }, files : FileLists, opts : { <<>> }, kb : NoKb]
\* Text, with or without a document and a selected knowledge base.
ToolInputs == [text : { <<"h", "i", " ">> }, files : { <<>>, <<DOC>> }, opts : { <<>> },
               kb : NoKb \cup { <<n>> : n \in KbNames }]

\* The length above which a text is staged in a session.
LongMessageLength == 1000
Filler(n) == [k \in 1..n |-> "x"]
\* Texts around that length: as long, one longer, and as long once trimmed.
LongInputs == [text : { <<"h", "i", " ">>, Filler(LongMessageLength), Filler(LongMessageLength + 1),
                        Filler(LongMessageLength) \o <<" ">> },
               files : { <<>>, <<IMG>> }, opts : { <<>> }, kb : NoKb]

\* Text with a document.
DocInputs == [text : { <<"h", "i", " ">> }, files : { <<DOC>> }, opts : { <<>> }, kb : NoKb]

\* Text alone.
TextInputs == [text : { <<"h", "i", " ">> }, files : { <<>> }, opts : { <<>> }, kb : NoKb]

ToolNames == {"isCodeAnalysisEnabled", "isWebSearchEnabled", "isImageCreatorEnabled", "isKnowledgeBasesEnabled"}

defaultToolState == [t \in ToolNames |-> FALSE]

\* ------------------------------------------------------------- state
VARIABLES
  user,                 \* the credential provider's "user present"
  activeChat,           \* useChats: the selected conversation, or NoChat (draft)
  chats,                \* useChats: ids of the conversations in the list
  isCreatingChat,       \* useChats
  messagesMap,          \* chat id -> <<message list>>, or <<>> (undefined)
  loadingChats,         \* chat id -> loading flag
  hasStartedResponse,
  toolStatesMap,        \* NewKey and chat ids -> <<tool state>>, or <<>> (undefined)
  eventSourcesRef,      \* chat id -> the invocation whose EventSource is registered, or 0
  pendingMessagesRef,   \* chat id -> message id, or NoMsg
  newChatIds,
  currentUploadStatus,
  subs,                 \* the handleSubmit invocations, in order of invocation
  stops,                \* the stopQuery invocations awaiting their POST
  loads,                \* the chats whose history fetch is outstanding
  nextId,               \* next client message id
  ret,                  \* what handleSubmit just returned to its caller: "none", "false", "true"
  returnedAt,           \* the guard of handleSubmit that made it return at once, or ""
  budget                \* how many fragments and failures there were

vars == << user, activeChat, chats, isCreatingChat, messagesMap, loadingChats,
           hasStartedResponse, toolStatesMap, eventSourcesRef, pendingMessagesRef,
           newChatIds, currentUploadStatus, subs, stops, loads, nextId, ret, returnedAt,
           budget >>

\* The mutable state as one record: the synchronous stretches of code are
\* functions from such a record to the next.
State ==
  [ activeChat |-> activeChat, chats |-> chats, isCreatingChat |-> isCreatingChat,
    messagesMap |-> messagesMap, loadingChats |-> loadingChats,
    hasStartedResponse |-> hasStartedResponse, toolStatesMap |-> toolStatesMap,
    eventSourcesRef |-> eventSourcesRef, pendingMessagesRef |-> pendingMessagesRef,
    newChatIds |-> newChatIds, currentUploadStatus |-> currentUploadStatus,
    subs |-> subs, nextId |-> nextId, ret |-> ret ]

\* An invocation that has ended (its promise resolved, its EventSource closed) is
\* garbage: nothing reads its arguments or its closure again.
Retired(sub) ==
  IF sub.pc \in {"done", "closed"}
  THEN [ pc |-> sub.pc, in |-> [text |-> <<>>, files |-> <<>>, opts |-> <<>>, kb |-> <<>>],
         snap |-> [ activeChat |-> NoChat, toolStatesMap |-> <<>>, messagesMap |-> <<>>,
                    newChatIds |-> {}, hasStartedResponse |-> FALSE ],
         target |-> sub.target, asst |-> sub.asst, imgIdx |-> 0, imgMode |-> FALSE,
         frags |-> <<>>, calls |-> <<>>, url |-> <<>> ]
  ELSE sub

Commit(s) ==
  /\ activeChat' = s.activeChat
  /\ chats' = s.chats
  /\ isCreatingChat' = s.isCreatingChat
  /\ messagesMap' = s.messagesMap
  /\ loadingChats' = s.loadingChats
  /\ hasStartedResponse' = s.hasStartedResponse
  /\ toolStatesMap' = s.toolStatesMap
  /\ eventSourcesRef' = s.eventSourcesRef
  /\ pendingMessagesRef' = s.pendingMessagesRef
  /\ newChatIds' = s.newChatIds
  /\ currentUploadStatus' = s.currentUploadStatus
  /\ subs' = [i \in 1..Len(s.subs) |-> Retired(s.subs[i])]
  /\ nextId' = s.nextId
  /\ ret' = s.ret

IDLE_STATUS      == [isUploading |-> FALSE, isIndexing |-> FALSE]
UPLOADING_STATUS == [isUploading |-> TRUE,  isIndexing |-> FALSE]
INDEXING_STATUS  == [isUploading |-> FALSE, isIndexing |-> TRUE]

Init ==
  /\ user \in BOOLEAN
  /\ activeChat = NoChat
  /\ chats = {}
  /\ isCreatingChat = FALSE
  /\ messagesMap = [c \in ChatIds |-> <<>>]
  /\ loadingChats = [c \in ChatIds |-> FALSE]
  /\ hasStartedResponse = FALSE
  /\ toolStatesMap = [k \in {NewKey} \cup ChatIds |-> IF k = NewKey THEN <<defaultToolState>> ELSE <<>>]
  /\ eventSourcesRef = [c \in ChatIds |-> NoSub]
  /\ pendingMessagesRef = [c \in ChatIds |-> NoMsg]
  /\ newChatIds = {}
  /\ currentUploadStatus = IDLE_STATUS
  /\ subs = <<>>
  /\ stops = <<>>
  /\ loads = {}
  /\ nextId = 1
  /\ ret = "none"
  /\ returnedAt = ""
  /\ budget = [frag |-> 0, fail |-> 0, err |-> 0]

\* ------------------------------------------------------------- strings
IsSpace(ch) == ch \in {" ", "\n", "\t"}

RECURSIVE trimStart(_)
trimStart(s) == IF s # <<>> /\ IsSpace(s[1]) THEN trimStart(Tail(s)) ELSE s

RECURSIVE trimEnd(_)
trimEnd(s) == IF s # <<>> /\ IsSpace(s[Len(s)]) THEN trimEnd(SubSeq(s, 1, Len(s) - 1)) ELSE s

trim(s) == trimEnd(trimStart(s))

\* A handler that forgets to decode the line-break marker.
replaceNothing(s) == s

\* content.replace(/\[NEWLINE\]/g, '\n')
RECURSIVE replaceNewline(_)
replaceNewline(s) ==
  IF s = <<>> THEN <<>>
  ELSE IF Len(s) >= Len(Marker) /\ SubSeq(s, 1, Len(Marker)) = Marker
       THEN <<"\n">> \o replaceNewline(SubSeq(s, Len(Marker) + 1, Len(s)))
       ELSE <<s[1]>> \o replaceNewline(Tail(s))

isImageFile(file) == file.type[1] = "image"

\* Array.prototype.filter
RECURSIVE filterImages(_, _)
filterImages(files, want) ==
  IF files = <<>> THEN <<>>
  ELSE (IF isImageFile(files[1]) = want THEN <<files[1]>> ELSE <<>>) \o filterImages(Tail(files), want)

imageJson(file) == <<"{type:image,alt:", file.name, "}">>

\* ------------------------------------------------------------- the conversation store
\* prev[chatId] || []
Msgs(map, chatId) == IF map[chatId] = <<>> THEN <<>> ELSE map[chatId][1]

\* map[key] || fallback
OrElse(opt, fallback) == IF opt = <<>> THEN fallback ELSE opt[1]

Message(id, role, content, status) ==
  [ id |-> id, role |-> role, content |-> content, status |-> status,
    imageResult |-> <<>>, isUploadMessage |-> FALSE, isImageGeneration |-> FALSE ]

\* An update by function that marks the message as streaming again.
applyUpdatesRestart(msg, updates) ==
  IF "append" \in DOMAIN updates
  THEN [msg EXCEPT !.content = @ \o updates.append, !.status = "streaming"]
  ELSE [f \in DOMAIN msg |-> IF f \in DOMAIN updates THEN updates[f] ELSE msg[f]]

\* { ...msg, content: updates(msg.content) }  or  { ...msg, ...updates }
applyUpdates(msg, updates) ==
  IF "append" \in DOMAIN updates
  THEN [msg EXCEPT !.content = @ \o updates.append]
  ELSE [f \in DOMAIN msg |-> IF f \in DOMAIN updates THEN updates[f] ELSE msg[f]]

\* An update that does not compare the ids.
updateEveryMessage(map, chatId, messageId, updates) ==
  LET chatMessages == Msgs(map, chatId)
  IN [map EXCEPT ![chatId] =
        << [i \in 1..Len(chatMessages) |-> applyUpdates(chatMessages[i], updates)] >>]

\* An update that adds the message when no message has the id.
updateOrAddMessage(map, chatId, messageId, updates) ==
  LET chatMessages == Msgs(map, chatId)
  IN IF \E k \in 1..Len(chatMessages) : chatMessages[k].id = messageId
     THEN [map EXCEPT ![chatId] =
             << [k \in 1..Len(chatMessages) |->
                   IF chatMessages[k].id # messageId THEN chatMessages[k]
                   ELSE applyUpdates(chatMessages[k], updates)] >>]
     ELSE [map EXCEPT ![chatId] =
             << Append(chatMessages,
                       applyUpdates(Message(messageId, "assistant", <<>>, "streaming"), updates)) >>]

updateMessageInChat(map, chatId, messageId, updates) ==
  LET chatMessages == Msgs(map, chatId)
      updatedMessages ==
        [i \in 1..Len(chatMessages) |->
           IF chatMessages[i].id # messageId THEN chatMessages[i]
           ELSE applyUpdates(chatMessages[i], updates)]
  IN [map EXCEPT ![chatId] = <<updatedMessages>>]

\* addMessageToChat: the new message gets a fresh id (s.nextId).
addMessageToChat(s, chatId, role, content, status) ==
  [s EXCEPT !.messagesMap[chatId] = << Append(Msgs(s.messagesMap, chatId), Message(s.nextId, role, content, status)) >>,
            !.nextId = @ + 1]

update(s, chatId, messageId, updates) ==
  [s EXCEPT !.messagesMap = updateMessageInChat(@, chatId, messageId, updates)]

\* A setLoadingChats that leaves the flag set.
setLoadingStuck(s, chatId, flag) == [s EXCEPT !.loadingChats[chatId] = TRUE]

setLoading(s, chatId, flag) == [s EXCEPT !.loadingChats[chatId] = flag]

\* eventSource.close() on the EventSource an invocation opened
closeStream(s, i) ==
  IF s.subs[i].pc = "streaming" THEN [s EXCEPT !.subs[i].pc = "closed"] ELSE s

\* ------------------------------------------------------------- handleSubmit
hasText(in)          == Len(trim(in.text)) > 0
hasFiles(in)         == Len(in.files) > 0
hasImages(in)        == filterImages(in.files, TRUE) # <<>> \/ (in.opts # <<>> /\ in.opts[1].image # <<>>)
hasNonImageFiles(in) == filterImages(in.files, FALSE) # <<>>

\* The state an invocation captures when the UI calls it.
Snapshot ==
  [ activeChat |-> activeChat, toolStatesMap |-> toolStatesMap, messagesMap |-> messagesMap,
    newChatIds |-> newChatIds, hasStartedResponse |-> hasStartedResponse ]

\* currentToolState of handleSubmit, lines 613-615
slotToolState(tools, chat) ==
  IF chat # NoChat THEN OrElse(tools[chat], defaultToolState) ELSE OrElse(tools[NewKey], defaultToolState)

\* isInImageCreatorMode, line 618
isInImageCreatorMode(tools, chat, in) ==
  slotToolState(tools, chat).isImageCreatorEnabled /\ in.opts # <<>> /\ trim(in.text) # <<>>

\* The guards without the one on non-image files.
rejectionLax(in) ==
  IF ~user THEN "signedOut"
  ELSE IF ~hasText(in) /\ ~hasFiles(in) /\ ~hasImages(in) THEN "noContent"
  ELSE IF activeChat # NoChat /\ (loadingChats[activeChat] \/ pendingMessagesRef[activeChat] # NoMsg)
       THEN "busy"
  ELSE ""

\* The guards with files alone let through.
rejectionFilesAlone(in) ==
  IF ~user THEN "signedOut"
  ELSE IF ~hasText(in) /\ ~hasFiles(in) /\ ~hasImages(in) THEN "noContent"
  ELSE IF activeChat # NoChat /\ (pendingMessagesRef[activeChat] # NoMsg \/ loadingChats[activeChat])
       THEN "busy"
  ELSE ""

\* The guards of lines 583-603: the one that makes handleSubmit return false at once,
\* "" when none does.
rejection(in) ==
  IF ~user THEN "signedOut"
  ELSE IF ~hasText(in) /\ ~hasFiles(in) /\ ~hasImages(in) THEN "noContent"
  ELSE IF hasNonImageFiles(in) /\ ~hasText(in) THEN "filesNeedText"
  ELSE IF activeChat # NoChat /\ (loadingChats[activeChat] \/ pendingMessagesRef[activeChat] # NoMsg)
       THEN "busy"
  ELSE ""

\* Of its arguments the record of an invocation keeps what the code after the first
\* await reads: the files, the trimmed input (userMessage) and, in image-creator mode,
\* the raw input and the options (the prompt and the options of generateImage).
NewSub(in) ==
  LET imgMode == isInImageCreatorMode(toolStatesMap, activeChat, in)
  IN [ pc |-> "entered",
       in |-> [text |-> IF imgMode THEN in.text ELSE trim(in.text), files |-> in.files,
               opts |-> IF imgMode THEN in.opts ELSE <<>>,
               kb |-> IF imgMode THEN <<>> ELSE in.kb],
       snap |-> Snapshot, target |-> NoChat, asst |-> NoMsg,
       imgIdx |-> 0, imgMode |-> imgMode, frags |-> <<>>, calls |-> <<>>, url |-> <<>> ]

Call(s, i, op) == [s EXCEPT !.subs[i].calls = Append(@, op)]

\* lines 746-749: the knowledge base handed to createQueryRequest. toolStatesMap is
\* the one of the render handleSubmit was called in.
kbNameOf(tools, chatId, kb) ==
  IF OrElse(tools[chatId], defaultToolState).isKnowledgeBasesEnabled THEN kb ELSE <<>>

\* lines 473 and 536-548: the source parameter of the stream URL, <<>> when there is
\* none; <<"kb", n>> stands for `kb.${n}`.
streamSource(tools, chatId, kbName) ==
  LET effectiveToolState == OrElse(tools[chatId], defaultToolState)
  IN IF effectiveToolState.isCodeAnalysisEnabled THEN <<"code">>
     ELSE IF effectiveToolState.isWebSearchEnabled THEN <<"web">>
     ELSE IF effectiveToolState.isKnowledgeBasesEnabled /\ kbName # <<>> THEN <<"kb", kbName[1]>>
     ELSE <<>>

\* lines 550-556: session_id, else query, else neither
streamParam(sessionId, userMessage) ==
  IF sessionId THEN "session_id" ELSE IF userMessage # <<>> THEN "query" ELSE "none"

\* new EventSource(url); eventSourcesRef.current[chatId] = newEventSource; handlers set.
\* createQueryRequest returns and handleSubmit returns true.
openStream(s, i, sessionId) ==
  LET sub == s.subs[i]
      c == sub.target
      param == streamParam(sessionId, trim(sub.in.text))
      kbName == kbNameOf(sub.snap.toolStatesMap, c, sub.in.kb)
      s1 == Call(s, i, IF param = "session_id" THEN "stream:session_id" ELSE
                       IF param = "query" THEN "stream:query" ELSE "stream:none")
  IN [s1 EXCEPT !.eventSourcesRef[c] = i, !.subs[i].pc = "streaming", !.ret = "true",
                !.subs[i].url = << [param |-> param,
                                    source |-> streamSource(sub.snap.toolStatesMap, c, kbName)] >>]

\* line 481, with the test on the boundary included
isLongMessageInclusive(userMessage) == Len(userMessage) >= LongMessageLength

\* line 481: userMessage.length > 1000, the length in UTF-16 code units
isLongMessage(userMessage) == Len(userMessage) > LongMessageLength

\* createQueryRequest up to its first await, lines 466-508
createQueryRequest(s, i) ==
  LET sub == s.subs[i]
      c == sub.target
      userMessage == trim(sub.in.text)
      imageFiles == filterImages(sub.in.files, TRUE)
      old == s.eventSourcesRef[c]
      s1 == IF old # NoSub THEN [closeStream(s, old) EXCEPT !.eventSourcesRef[c] = NoSub] ELSE s
  IN IF isLongMessage(userMessage) \/ Len(imageFiles) > 0
     THEN [Call(s1, i, "start_query_session") EXCEPT !.subs[i].pc = "session"]
     ELSE openStream(s1, i, FALSE)

\* generateImage up to its await, lines 1028-1052; handleSubmit does not await it
\* and returns true.
generateImageStart(s, i) ==
  LET c == s.subs[i].target
  IN [Call(setLoading(s, c, TRUE), i, "query_image") EXCEPT !.subs[i].pc = "imagegen", !.ret = "true"]

\* lines 733-765: the query step
queryStep(s, i) ==
  LET sub == s.subs[i]
      c == sub.target
      userMessage == trim(sub.in.text)
      imageFiles == filterImages(sub.in.files, TRUE)
  IN IF trim(userMessage) # <<>> \/ Len(imageFiles) > 0 \/ sub.imgMode
     THEN LET s1 == [s EXCEPT !.pendingMessagesRef[c] = sub.asst]
          IN IF sub.imgMode
             THEN generateImageStart(update(s1, c, sub.asst, [isImageGeneration |-> TRUE]), i)
             ELSE createQueryRequest(s1, i)
     ELSE LET s1 == update(s, c, sub.asst, [content |-> UPLOAD_OK, status |-> "complete"])
          IN [setLoading(s1, c, FALSE) EXCEPT !.subs[i].pc = "done", !.ret = "true"]

\* lines 684-721: the messages of the submission, then the upload or the query step
appendStep(s, i) ==
  LET sub == s.subs[i]
      c == sub.target
      userMessage == trim(sub.in.text)
      imageFiles == filterImages(sub.in.files, TRUE)
      nonImageFiles == filterImages(sub.in.files, FALSE)
      s1 == IF userMessage # <<>> \/ Len(nonImageFiles) > 0
            THEN addMessageToChat(s, c, "user", IF userMessage # <<>> THEN userMessage ELSE FILES_SHARED, "complete")
            ELSE s
  IN IF Len(nonImageFiles) > 0 \/ trim(userMessage) # <<>> \/ Len(imageFiles) > 0
     THEN LET s2 == setLoading(s1, c, TRUE)
              id == s2.nextId
              s3 == [addMessageToChat(s2, c, "assistant", <<>>, "streaming") EXCEPT !.subs[i].asst = id]
          IN IF Len(nonImageFiles) > 0
             THEN LET s4 == update(s3, c, id, [isUploadMessage |-> TRUE])
                  IN [Call(s4, i, "upload_files") EXCEPT !.currentUploadStatus = UPLOADING_STATUS,
                                                         !.subs[i].pc = "uploading"]
             ELSE queryStep(s3, i)
     ELSE [s1 EXCEPT !.subs[i].pc = "done", !.ret = "true"]

\* lines 665-682: the conversation is known; image files are read one by one
targetStep(s, i) ==
  LET s1 == [s EXCEPT !.hasStartedResponse = TRUE]
      imageFiles == filterImages(s.subs[i].in.files, TRUE)
  IN IF Len(imageFiles) > 0
     THEN [s1 EXCEPT !.subs[i].pc = "imaging", !.subs[i].imgIdx = 1]
     ELSE appendStep(s1, i)

\* An entry whose createNewChat does not look at isCreatingChat.
handleSubmitEntryAgain(s, in) ==
  LET i == Len(s.subs) + 1
      s1 == [s EXCEPT !.hasStartedResponse = FALSE, !.subs = Append(@, NewSub(in))]
  IN IF s.activeChat = NoChat
     THEN [Call(s1, i, "new_chat") EXCEPT !.isCreatingChat = TRUE, !.subs[i].pc = "creating"]
     ELSE targetStep([s1 EXCEPT !.subs[i].target = s.activeChat], i)

\* handleSubmit from its call to its first await
handleSubmitEntry(s, in) ==
  LET i == Len(s.subs) + 1
      s1 == [s EXCEPT !.hasStartedResponse = FALSE, !.subs = Append(@, NewSub(in))]
  IN IF s.activeChat = NoChat
     THEN IF s.isCreatingChat
          THEN [s EXCEPT !.hasStartedResponse = FALSE, !.ret = "false"]   \* createNewChat gave null
          ELSE [Call(s1, i, "new_chat") EXCEPT !.isCreatingChat = TRUE, !.subs[i].pc = "creating"]
     ELSE targetStep([s1 EXCEPT !.subs[i].target = s.activeChat], i)

\* Nothing is left to run before the next event: the caller has taken the value
\* handleSubmit returned, and the effect that loads a conversation has run.
LoadDue ==
  /\ activeChat # NoChat /\ user
  /\ activeChat \notin newChatIds
  /\ messagesMap[activeChat] = <<>>
  /\ activeChat \notin loads

Settled == ret = "none" /\ ~LoadDue

\* The network fails at most MaxFails times.
MayFail(ok) == ok \/ budget.fail < MaxFails
Outcome(ok) == budget' = IF ok THEN budget ELSE [budget EXCEPT !.fail = @ + 1]

\* handleSubmit, called by the UI; at most maxSubs calls are accepted.
handleSubmit(in, maxSubs) ==
  /\ Settled
  /\ IF rejection(in) # ""
     THEN /\ ret' = "false"
          /\ returnedAt' = rejection(in)
          /\ UNCHANGED << activeChat, chats, isCreatingChat, messagesMap, loadingChats,
                          hasStartedResponse, toolStatesMap, eventSourcesRef,
                          pendingMessagesRef, newChatIds, currentUploadStatus, subs, nextId >>
     ELSE /\ (Len(subs) < maxSubs \/ (activeChat = NoChat /\ isCreatingChat))
          /\ Commit(handleSubmitEntry(State, in))
          /\ returnedAt' = ""
  /\ UNCHANGED << user, stops, loads, budget >>

Submit(inputs, maxSubs) == \E in \in inputs : handleSubmit(in, maxSubs)

\* App.handleFormSubmit takes the value handleSubmit returned.
ConsumeReturn ==
  /\ ret # "none"
  /\ ret' = "none"
  /\ returnedAt' = ""
  /\ UNCHANGED << user, activeChat, chats, isCreatingChat, messagesMap, loadingChats,
                  hasStartedResponse, toolStatesMap, eventSourcesRef, pendingMessagesRef,
                  newChatIds, currentUploadStatus, subs, stops, loads, nextId, budget >>

FreeIds == ChatIds \ chats
MinOf(S) == CHOOSE x \in S : \A y \in S : x <= y

\* A handleSubmit that does not test what createNewChat gave and reports success.
createNewChatIgnored(s, i, ok) ==
  [s EXCEPT !.isCreatingChat = FALSE, !.subs[i].pc = "done", !.ret = "true"]

\* createNewChat resolves (useChats) and handleSubmit goes on, lines 621-663
createNewChatDone(s, i, ok) ==
  IF ~ok
  THEN [s EXCEPT !.isCreatingChat = FALSE, !.subs[i].pc = "done", !.ret = "false"]
  ELSE LET targetChatId == MinOf(ChatIds \ s.chats)
           newChatToolState == OrElse(s.subs[i].snap.toolStatesMap[NewKey], defaultToolState)
           s1 == [s EXCEPT !.chats = @ \cup {targetChatId},
                           !.isCreatingChat = FALSE,
                           !.subs[i].target = targetChatId,
                           !.activeChat = targetChatId,
                           !.newChatIds = @ \cup {targetChatId},
                           !.toolStatesMap[targetChatId] = <<newChatToolState>>]
       IN targetStep(Call(s1, i, "update_chat_name"), i)

CreateDone(i, ok) ==
  /\ Settled /\ MayFail(ok)
  /\ subs[i].pc = "creating"
  /\ ok => FreeIds # {}
  /\ Commit(createNewChatDone(State, i, ok))
  /\ Outcome(ok)
  /\ UNCHANGED << user, returnedAt, stops, loads >>

\* createImageMessageFromFile resolves: reader.onload (ok) or reader.onerror
imageRead(s, i, ok) ==
  LET sub == s.subs[i]
      imageFiles == filterImages(sub.in.files, TRUE)
      s1 == IF ok THEN addMessageToChat(s, sub.target, "user", imageJson(imageFiles[sub.imgIdx]), "complete")
            ELSE s
  IN IF sub.imgIdx < Len(imageFiles)
     THEN [s1 EXCEPT !.subs[i].imgIdx = @ + 1]
     ELSE appendStep(s1, i)

ImageRead(i, ok) ==
  /\ Settled /\ MayFail(ok)
  /\ subs[i].pc = "imaging"
  /\ Commit(imageRead(State, i, ok))
  /\ Outcome(ok)
  /\ UNCHANGED << user, returnedAt, stops, loads >>

\* A catch that records the error and goes on to the query step.
submitCatchGoesOn(s, i) ==
  queryStep(update(s, s.subs[i].target, s.subs[i].asst,
                   [content |-> UPLOAD_ERROR, status |-> "complete", isUploadMessage |-> FALSE]), i)

\* the catch of handleSubmit, lines 767-784
submitCatch(s, i) ==
  LET c == s.subs[i].target
      s1 == update(s, c, s.subs[i].asst,
                   [content |-> UPLOAD_ERROR, status |-> "complete", isUploadMessage |-> FALSE])
  IN [setLoading(s1, c, FALSE) EXCEPT !.pendingMessagesRef[c] = NoMsg,
                                      !.subs[i].pc = "done", !.ret = "true"]

\* Every upload classified as doc.
fileTypeDoc(tools, chatId) == "doc"

\* Every upload classified as code.
fileTypeCode(tools, chatId) == "code"

\* fileType of uploadFilesToChat, lines 392-393
fileType(tools, chatId) ==
  LET currentState == OrElse(tools[chatId], OrElse(tools[NewKey], defaultToolState))
  IN IF currentState.isCodeAnalysisEnabled THEN "code" ELSE "doc"

\* uploadFilesToChat returned; handleSubmit lines 723-731, then the query step
afterUpload(s, i) ==
  LET s1 == [s EXCEPT !.currentUploadStatus = IDLE_STATUS]
  IN queryStep(update(s1, s.subs[i].target, s.subs[i].asst, [isUploadMessage |-> FALSE]), i)

\* the upload POST resolves, lines 410-436
uploadDone(s, i, ok) ==
  IF ~ok
  THEN submitCatch([s EXCEPT !.currentUploadStatus = IDLE_STATUS], i)
  ELSE IF fileType(s.subs[i].snap.toolStatesMap, s.subs[i].target) = "doc"
       THEN [Call(s, i, "index_files") EXCEPT !.currentUploadStatus = INDEXING_STATUS,
                                              !.subs[i].pc = "indexing"]
       ELSE afterUpload(s, i)

UploadDone(i, ok) ==
  /\ Settled /\ MayFail(ok)
  /\ subs[i].pc = "uploading"
  /\ Commit(uploadDone(State, i, ok))
  /\ Outcome(ok)
  /\ UNCHANGED << user, returnedAt, stops, loads >>

\* the index POST resolves, lines 438-454
indexDone(s, i, ok) ==
  IF ~ok THEN submitCatch([s EXCEPT !.currentUploadStatus = IDLE_STATUS], i)
  ELSE afterUpload(s, i)

IndexDone(i, ok) ==
  /\ Settled /\ MayFail(ok)
  /\ subs[i].pc = "indexing"
  /\ Commit(indexDone(State, i, ok))
  /\ Outcome(ok)
  /\ UNCHANGED << user, returnedAt, stops, loads >>

\* A failed session call treated as the errors of createQueryRequest are (the catch
\* of lines 562-577).
sessionDoneAborts(s, i, ok) ==
  LET c == s.subs[i].target
      s1 == update(setLoading(s, c, FALSE), c, s.subs[i].asst,
                   [content |-> GENERIC_ERROR, status |-> "complete"])
  IN IF ok THEN openStream(s, i, TRUE)
     ELSE [s1 EXCEPT !.pendingMessagesRef[c] = NoMsg, !.subs[i].pc = "done", !.ret = "true"]

\* lines 510-561: a session id when the call succeeded, none when it failed (non-2xx
\* or an exception, both swallowed); the stream is opened either way.
sessionDone(s, i, ok) == openStream(s, i, ok)

\* the session POST resolves, lines 510-561
SessionDone(i, ok) ==
  /\ Settled /\ MayFail(ok)
  /\ subs[i].pc = "session"
  /\ Commit(sessionDone(State, i, ok))
  /\ Outcome(ok)
  /\ UNCHANGED << user, returnedAt, stops, loads >>

\* ------------------------------------------------------------- the stream handlers
\* if (newChatIds.has(chatId)) setNewChatIds(prev => prev without chatId): the test reads
\* the closure, the removal the current set.
dropNewChatId(s, i) ==
  LET c == s.subs[i].target
  IN IF c \in s.subs[i].snap.newChatIds THEN [s EXCEPT !.newChatIds = @ \ {c}] ELSE s

\* A handler whose [DONE] branch leaves the pending entry.
onmessageKeepsPending(s, i, data) ==
  LET sub == s.subs[i]
      c == sub.target
  IN IF data = DONE
     THEN LET s2 == [s EXCEPT !.subs[i].pc = "done", !.eventSourcesRef[c] = NoSub]
          IN update(setLoading(s2, c, FALSE), c, sub.asst, [status |-> "complete"])
     ELSE [update(s, c, sub.asst, [append |-> replaceNewline(data)])
             EXCEPT !.subs[i].frags = Append(@, data)]

\* eventSource.onmessage, lines 799-835
onmessage(s, i, data) ==
  LET sub == s.subs[i]
      c == sub.target
      s1 == IF sub.snap.activeChat = c /\ ~sub.snap.hasStartedResponse
            THEN [s EXCEPT !.hasStartedResponse = TRUE] ELSE s
  IN IF data = DONE
     THEN LET s2 == [s1 EXCEPT !.subs[i].pc = "done", !.eventSourcesRef[c] = NoSub]
              s3 == update(setLoading(s2, c, FALSE), c, sub.asst, [status |-> "complete"])
          IN dropNewChatId([s3 EXCEPT !.pendingMessagesRef[c] = NoMsg], i)
     ELSE [update(s1, c, sub.asst, [append |-> replaceNewline(data)])
             EXCEPT !.subs[i].frags = Append(@, data)]

StreamMessage(i, data, maxFrags) ==
  /\ Settled
  /\ subs[i].pc = "streaming"
  /\ data # DONE => budget.frag < maxFrags
  /\ Commit(onmessage(State, i, data))
  /\ budget' = IF data = DONE THEN budget ELSE [budget EXCEPT !.frag = @ + 1]
  /\ UNCHANGED << user, returnedAt, stops, loads >>

\* messagesMap[chatId]?.find(msg => msg.id === messageId)?.content || ''
findContent(map, chatId, messageId) ==
  LET l == Msgs(map, chatId)
      hit == { k \in 1..Len(l) : l[k].id = messageId }
  IN IF hit = {} THEN <<>> ELSE l[MinOf(hit)].content

\* A handler that finalizes the message without looking at the pending entry.
onerrorUnguarded(s, i) ==
  LET c == s.subs[i].target
      s1 == setLoading([s EXCEPT !.subs[i].pc = "done", !.eventSourcesRef[c] = NoSub], c, FALSE)
  IN [update(s1, c, s.subs[i].asst, [content |-> GENERIC_ERROR, status |-> "complete"])
        EXCEPT !.pendingMessagesRef[c] = NoMsg]

\* eventSource.onerror, lines 837-875
onerror(s, i) ==
  LET sub == s.subs[i]
      c == sub.target
      s1 == setLoading([s EXCEPT !.subs[i].pc = "done", !.eventSourcesRef[c] = NoSub], c, FALSE)
      currentContent == findContent(sub.snap.messagesMap, c, sub.asst)
      errorMessage == IF trim(currentContent) # <<>> THEN currentContent \o INTERRUPTED ELSE GENERIC_ERROR
      s2 == IF s1.pendingMessagesRef[c] = sub.asst
            THEN [update(s1, c, sub.asst, [content |-> errorMessage, status |-> "complete"])
                    EXCEPT !.pendingMessagesRef[c] = NoMsg]
            ELSE s1
  IN dropNewChatId(s2, i)

StreamError(i) ==
  /\ Settled
  /\ budget.err < MaxErrors
  /\ subs[i].pc = "streaming"
  /\ Commit(onerror(State, i))
  /\ budget' = [budget EXCEPT !.err = @ + 1]
  /\ UNCHANGED << user, returnedAt, stops, loads >>

\* ------------------------------------------------------------- image generation
\* A generateImage whose clean-up runs on success only.
generateImageDoneNoFinally(s, i, outcome) ==
  LET sub == s.subs[i]
      c == sub.target
  IN IF outcome = "url"
     THEN [setLoading(update(s, c, sub.asst,
                             [content |-> <<>>, status |-> "complete",
                              imageResult |-> << [url |-> "url", prompt |-> sub.in.text,
                                                  filename |-> "filename", timestamp |-> "created",
                                                  isVariation |-> sub.in.opts[1].image # <<>>] >>]), c, FALSE)
             EXCEPT !.pendingMessagesRef[c] = NoMsg, !.subs[i].pc = "done"]
     ELSE [update(s, c, sub.asst, [content |-> IMAGE_ERROR, status |-> "complete"])
             EXCEPT !.subs[i].pc = "done"]

\* the POST of generateImage resolves, lines 1054-1099
generateImageDone(s, i, outcome) ==
  LET sub == s.subs[i]
      c == sub.target
      options == sub.in.opts[1]
      s1 == CASE outcome = "url" ->
                   update(s, c, sub.asst,
                          [content |-> <<>>, status |-> "complete",
                           imageResult |-> << [url |-> "url", prompt |-> sub.in.text,
                                               filename |-> "filename", timestamp |-> "created",
                                               isVariation |-> options.image # <<>>] >>])
              [] outcome = "error" ->
                   update(s, c, sub.asst, [content |-> SERVER_ERROR, status |-> "complete"])
              [] OTHER ->
                   update(s, c, sub.asst, [content |-> IMAGE_ERROR, status |-> "complete"])
      s2 == [setLoading(s1, c, FALSE) EXCEPT !.pendingMessagesRef[c] = NoMsg, !.subs[i].pc = "done"]
  IN dropNewChatId(s2, i)

ImageGenDone(i, outcome) ==
  /\ Settled /\ MayFail(outcome = "url")
  /\ subs[i].pc = "imagegen"
  /\ Commit(generateImageDone(State, i, outcome))
  /\ Outcome(outcome = "url")
  /\ UNCHANGED << user, returnedAt, stops, loads >>

\* ------------------------------------------------------------- stop, clear
\* stopQuery up to its POST, lines 936-942: it keeps the messagesMap of its render,
\* of which it will read the last message of the chat.
stopQueryCall(c) ==
  LET l == Msgs(messagesMap, c)
  IN [chat |-> c,
      lastId |-> IF l = <<>> THEN NoMsg ELSE l[Len(l)].id,
      lastStreaming |-> l # <<>> /\ l[Len(l)].status = "streaming"]

StopInvoke(c) ==
  /\ Settled /\ user
  /\ Len(stops) < MaxStops
  /\ stops' = Append(stops, stopQueryCall(c))
  /\ UNCHANGED << user, returnedAt, activeChat, chats, isCreatingChat, messagesMap, loadingChats,
                  hasStartedResponse, toolStatesMap, eventSourcesRef, pendingMessagesRef,
                  newChatIds, currentUploadStatus, subs, loads, nextId, ret, budget >>

\* the POST of stopQuery resolves, lines 944-976
stopQueryDone(s, st, ok) ==
  LET c == st.chat
      old == s.eventSourcesRef[c]
      s1 == IF ok /\ old # NoSub THEN [closeStream(s, old) EXCEPT !.eventSourcesRef[c] = NoSub] ELSE s
      s2 == IF ok /\ st.lastStreaming THEN update(s1, c, st.lastId, [status |-> "complete"]) ELSE s1
      s3 == [setLoading(s2, c, FALSE) EXCEPT !.pendingMessagesRef[c] = NoMsg,
                                             !.currentUploadStatus = IDLE_STATUS]
  IN IF ok THEN [s3 EXCEPT !.hasStartedResponse = FALSE] ELSE s3

Remove(seq, k) == [j \in 1..(Len(seq) - 1) |-> IF j < k THEN seq[j] ELSE seq[j + 1]]

StopDone(k, ok) ==
  /\ Settled /\ MayFail(ok)
  /\ k \in 1..Len(stops)
  /\ Commit(stopQueryDone(State, stops[k], ok))
  /\ stops' = Remove(stops, k)
  /\ Outcome(ok)
  /\ UNCHANGED << user, returnedAt, loads >>

\* clearMessages, lines 980-1002
clearMessages(s) ==
  LET c == s.activeChat
      old == s.eventSourcesRef[c]
      s1 == [s EXCEPT !.messagesMap[c] = << <<>> >>]
      s2 == IF old # NoSub THEN [closeStream(s1, old) EXCEPT !.eventSourcesRef[c] = NoSub] ELSE s1
  IN [setLoading(s2, c, FALSE) EXCEPT !.currentUploadStatus = IDLE_STATUS,
                                      !.hasStartedResponse = FALSE,
                                      !.pendingMessagesRef[c] = NoMsg]

ClearMessages ==
  /\ Settled
  /\ activeChat # NoChat
  /\ Commit(clearMessages(State))
  /\ UNCHANGED << user, returnedAt, stops, loads, budget >>

\* clearAllChats, lines 1005-1018
clearAllChats(s) ==
  [s EXCEPT !.subs = [i \in 1..Len(s.subs) |->
                        IF \E c \in ChatIds : s.eventSourcesRef[c] = i
                        THEN closeStream(s, i).subs[i] ELSE s.subs[i]],
            !.eventSourcesRef = [c \in ChatIds |-> NoSub],
            !.messagesMap = [c \in ChatIds |-> <<>>],
            !.loadingChats = [c \in ChatIds |-> FALSE],
            !.hasStartedResponse = FALSE,
            !.pendingMessagesRef = [c \in ChatIds |-> NoMsg],
            !.newChatIds = {},
            !.currentUploadStatus = IDLE_STATUS,
            !.toolStatesMap = [k \in {NewKey} \cup ChatIds |->
                                 IF k = NewKey THEN << OrElse(s.toolStatesMap[NewKey], defaultToolState) >>
                                 ELSE <<>>]]

ClearAllChats ==
  /\ Settled
  /\ Commit(clearAllChats(State))
  /\ UNCHANGED << user, returnedAt, stops, loads, budget >>

\* ------------------------------------------------------------- selection, tools, history
\* App.handleSelectChat
SelectChat(c) ==
  /\ Settled
  /\ c \in chats /\ c # activeChat
  /\ activeChat' = c
  /\ UNCHANGED << user, returnedAt, chats, isCreatingChat, messagesMap, loadingChats, hasStartedResponse,
                  toolStatesMap, eventSourcesRef, pendingMessagesRef, newChatIds,
                  currentUploadStatus, subs, stops, loads, nextId, ret, budget >>

\* App.handleNewChat: resetState, then setActiveChat(null)
NewChat ==
  /\ Settled
  /\ activeChat # NoChat
  /\ activeChat' = NoChat
  /\ hasStartedResponse' = FALSE
  /\ UNCHANGED << user, returnedAt, chats, isCreatingChat, messagesMap, loadingChats,
                  toolStatesMap, eventSourcesRef, pendingMessagesRef, newChatIds,
                  currentUploadStatus, subs, stops, loads, nextId, ret, budget >>

\* Tool flags as independent booleans: enabling one leaves the others.
updateToolStateKeep(tools, stateKey, toolName, enabled) ==
  [tools EXCEPT ![stateKey] =
     << [OrElse(tools[stateKey], defaultToolState) EXCEPT ![toolName] = enabled] >>]

\* updateToolState, lines 122-153
updateToolState(tools, stateKey, toolName, enabled) ==
  LET currentState == OrElse(tools[stateKey], defaultToolState)
  IN IF enabled
     THEN [tools EXCEPT ![stateKey] = << [t \in ToolNames |-> t = toolName] >>]
     ELSE [tools EXCEPT ![stateKey] = << [currentState EXCEPT ![toolName] = enabled] >>]

\* updateToolState called at any time
SetTool(toolName, enabled) ==
  /\ Settled
  /\ toolStatesMap' = updateToolState(toolStatesMap, activeChat, toolName, enabled)
  /\ UNCHANGED << user, returnedAt, activeChat, chats, isCreatingChat, messagesMap, loadingChats,
                  hasStartedResponse, eventSourcesRef, pendingMessagesRef, newChatIds,
                  currentUploadStatus, subs, stops, loads, nextId, ret, budget >>

\* updateToolState called before the first submission
UpdateToolState(toolName, enabled) ==
  /\ Settled
  /\ subs = <<>>
  /\ toolStatesMap' = updateToolState(toolStatesMap, activeChat, toolName, enabled)
  /\ UNCHANGED << user, returnedAt, activeChat, chats, isCreatingChat, messagesMap, loadingChats,
                  hasStartedResponse, eventSourcesRef, pendingMessagesRef, newChatIds,
                  currentUploadStatus, subs, stops, loads, nextId, ret, budget >>

\* The two effects of lines 162-274 up to the fetch of loadNextChat.
LoadStart ==
  /\ ret = "none" /\ LoadDue
  /\ loads' = loads \cup {activeChat}
  /\ UNCHANGED << user, returnedAt, activeChat, chats, isCreatingChat, messagesMap, loadingChats,
                  hasStartedResponse, toolStatesMap, eventSourcesRef, pendingMessagesRef,
                  newChatIds, currentUploadStatus, subs, stops, nextId, ret, budget >>

\* What the server holds of a conversation: nothing, or one exchange.
Histories ==
  { << Message(-1, "user", <<"q">>, "complete"), Message(-2, "assistant", <<"r">>, "complete") >> }

\* The fetch of loadNextChat resolves, lines 200-265.
LoadDone(c, ok, hist) ==
  /\ Settled /\ MayFail(ok)
  /\ c \in loads
  /\ loads' = loads \ {c}
  /\ messagesMap' = [messagesMap EXCEPT ![c] = << IF ok THEN hist ELSE <<>> >>]
  /\ Outcome(ok)
  /\ UNCHANGED << user, returnedAt, activeChat, chats, isCreatingChat, loadingChats,
                  hasStartedResponse, toolStatesMap, eventSourcesRef, pendingMessagesRef,
                  newChatIds, currentUploadStatus, subs, stops, nextId, ret >>

\* ------------------------------------------------------------- the specifications
\* The steps of the submissions: network completions and stream events.
Network(maxFrags) ==
  \/ \E i \in 1..Len(subs), ok \in BOOLEAN : CreateDone(i, ok)
  \/ \E i \in 1..Len(subs), ok \in BOOLEAN : ImageRead(i, ok)
  \/ \E i \in 1..Len(subs), ok \in BOOLEAN : UploadDone(i, ok)
  \/ \E i \in 1..Len(subs), ok \in BOOLEAN : IndexDone(i, ok)
  \/ \E i \in 1..Len(subs), ok \in BOOLEAN : SessionDone(i, ok)
  \/ \E i \in 1..Len(subs), data \in Fragments \cup {DONE} : StreamMessage(i, data, maxFrags)
  \/ \E i \in 1..Len(subs) : StreamError(i)
  \/ \E i \in 1..Len(subs), outcome \in {"url", "error", "fail"} : ImageGenDone(i, outcome)
  \/ \E k \in 1..Len(stops), ok \in BOOLEAN : StopDone(k, ok)

\* What the user does.
User ==
  \/ Submit(Inputs, MaxSubmits)
  \/ ConsumeReturn
  \/ \E c \in chats : StopInvoke(c)
  \/ ClearMessages
  \/ \E c \in ChatIds : SelectChat(c)
  \/ NewChat
  \/ \E toolName \in ToolNames, enabled \in BOOLEAN : UpdateToolState(toolName, enabled)

Next == User \/ Network(MaxFrags)

\* One submission, every operation of the user but clearAllChats.
Spec == Init /\ [][Next]_vars

\* With clearAllChats and the history load it brings about.
History ==
  \/ ClearAllChats
  \/ LoadStart
  \/ \E c \in ChatIds, ok \in BOOLEAN, hist \in Histories : LoadDone(c, ok, hist)

NextAll == User \/ Network(MaxFrags) \/ History

SpecAll == Init /\ [][NextAll]_vars

\* One submission, the tool modes changed at any time, and clearAllChats.
NextTools ==
  \/ Submit(ToolInputs, MaxSubmits)
  \/ ConsumeReturn
  \/ \E toolName \in ToolNames, enabled \in BOOLEAN : SetTool(toolName, enabled)
  \/ \E c \in ChatIds : SelectChat(c)
  \/ NewChat
  \/ History
  \/ \E i \in 1..Len(subs), ok \in BOOLEAN : CreateDone(i, ok)
  \/ \E i \in 1..Len(subs), ok \in BOOLEAN : UploadDone(i, ok)
  \/ \E i \in 1..Len(subs), ok \in BOOLEAN : IndexDone(i, ok)
  \/ \E i \in 1..Len(subs), data \in Fragments \cup {DONE} : StreamMessage(i, data, TwoFrags)
  \/ \E i \in 1..Len(subs) : StreamError(i)

SpecTools == Init /\ [][NextTools]_vars

\* One submission of a text around the length that needs a session.
NextLong ==
  \/ Submit(LongInputs, MaxSubmits)
  \/ ConsumeReturn
  \/ \E i \in 1..Len(subs), ok \in BOOLEAN : CreateDone(i, ok)
  \/ \E i \in 1..Len(subs), ok \in BOOLEAN : ImageRead(i, ok)
  \/ \E i \in 1..Len(subs), ok \in BOOLEAN : SessionDone(i, ok)
  \/ \E i \in 1..Len(subs), data \in Fragments \cup {DONE} : StreamMessage(i, data, MaxFrags)
  \/ \E i \in 1..Len(subs) : StreamError(i)

SpecLong == Init /\ [][NextLong]_vars

\* Two submissions of a document, the first from the draft and the second on the
\* conversation it created, and code-analysis mode switched at any time.
NextCode ==
  \/ Submit(DocInputs, TwoSubmits)
  \/ ConsumeReturn
  \/ \E enabled \in BOOLEAN : SetTool("isCodeAnalysisEnabled", enabled)
  \/ \E i \in 1..Len(subs), ok \in BOOLEAN : CreateDone(i, ok)
  \/ \E i \in 1..Len(subs), ok \in BOOLEAN : UploadDone(i, ok)
  \/ \E i \in 1..Len(subs), ok \in BOOLEAN : IndexDone(i, ok)
  \/ \E i \in 1..Len(subs), data \in Fragments \cup {DONE} : StreamMessage(i, data, TwoFrags)
  \/ \E i \in 1..Len(subs) : StreamError(i)

SpecCode == Init /\ [][NextCode]_vars

\* Two submissions of a document on two conversations (the user goes back to the
\* draft in between), with stop and clear.
NextCross ==
  \/ Submit(DocInputs, TwoSubmits)
  \/ ConsumeReturn
  \/ NewChat
  \/ \E c \in ChatIds : SelectChat(c)
  \/ \E c \in chats : StopInvoke(c)
  \/ ClearMessages
  \/ \E i \in 1..Len(subs), ok \in BOOLEAN : CreateDone(i, ok)
  \/ \E i \in 1..Len(subs), ok \in BOOLEAN : UploadDone(i, ok)
  \/ \E i \in 1..Len(subs), ok \in BOOLEAN : IndexDone(i, ok)
  \/ \E i \in 1..Len(subs), data \in Fragments \cup {DONE} : StreamMessage(i, data, TwoFrags)
  \/ \E i \in 1..Len(subs) : StreamError(i)
  \/ \E k \in 1..Len(stops), ok \in BOOLEAN : StopDone(k, ok)

SpecCross == Init /\ [][NextCross]_vars

\* Two text submissions, with clearAllChats and the loading of the history of the
\* selected conversation.
NextLoad ==
  \/ Submit(TextInputs, TwoSubmits)
  \/ ConsumeReturn
  \/ History
  \/ \E i \in 1..Len(subs), ok \in BOOLEAN : CreateDone(i, ok)
  \/ \E i \in 1..Len(subs), data \in Fragments \cup {DONE} : StreamMessage(i, data, TwoFrags)
  \/ \E i \in 1..Len(subs) : StreamError(i)

SpecLoad == Init /\ [][NextLoad]_vars

\* Two submissions and stop, no tool mode.
NextTwo ==
  \/ Submit(PlainInputs, TwoSubmits)
  \/ ConsumeReturn
  \/ \E c \in chats : StopInvoke(c)
  \/ \E i \in 1..Len(subs), ok \in BOOLEAN : CreateDone(i, ok)
  \/ \E i \in 1..Len(subs), ok \in BOOLEAN : ImageRead(i, ok)
  \/ \E i \in 1..Len(subs), ok \in BOOLEAN : UploadDone(i, ok)
  \/ \E i \in 1..Len(subs), ok \in BOOLEAN : IndexDone(i, ok)
  \/ \E i \in 1..Len(subs), ok \in BOOLEAN : SessionDone(i, ok)
  \/ \E i \in 1..Len(subs), data \in Fragments \cup {DONE} : StreamMessage(i, data, TwoFrags)
  \/ \E i \in 1..Len(subs) : StreamError(i)
  \/ \E k \in 1..Len(stops), ok \in BOOLEAN : StopDone(k, ok)

SpecTwo == Init /\ [][NextTwo]_vars

\* ------------------------------------------------------------- the claims
\* An earlier submission on conversation c is at one of its suspension points.
InFlight(c) ==
  \E i \in 1..Len(subs) :
    /\ subs[i].target = c
    /\ subs[i].pc \in {"imaging", "uploading", "indexing", "session", "streaming"}

\* C1: a call of submit on a conversation on which an earlier submission has not
\* resolved (it is reading an image, uploading, indexing, creating a session, or its
\* stream is open) returns false and appends no message to the conversation.
C1_MutualExclusion ==
  [][\A in \in PlainInputs :
       (activeChat # NoChat /\ InFlight(activeChat) /\ handleSubmit(in, TwoSubmits))
         => (ret' = "false" /\ messagesMap' = messagesMap)]_vars

streamingCount(c) ==
  Cardinality({ k \in 1..Len(Msgs(messagesMap, c)) : Msgs(messagesMap, c)[k].status = "streaming" })

\* C2: in every reachable state every conversation has at most one message whose
\* status is streaming.
C2_AtMostOneStreaming == \A c \in ChatIds : streamingCount(c) <= 1

\* Every network call that was started has returned and every stream that was opened
\* has delivered [DONE] or a transport error: nothing is left to happen unless the user
\* acts again.
Quiescent ==
  /\ ret = "none" /\ stops = <<>> /\ loads = {}
  /\ \A i \in 1..Len(subs) : subs[i].pc = "done"

\* C3: when every network call has returned and every opened stream has delivered
\* [DONE] or a transport error, no message is left with status streaming and no
\* conversation is left loading (what "eventually complete, eventually not loading"
\* comes to in a run where the user does nothing more).
C3_Resolves ==
  Quiescent => \A c \in ChatIds : streamingCount(c) = 0 /\ ~loadingChats[c]

\* The i-th submission is one of non-empty text without files, outside image creation.
plainText(i) ==
  /\ subs[i].in.text # <<>>
  /\ subs[i].in.files = <<>>
  /\ ~subs[i].imgMode

\* No other submission was made on the conversation of the i-th.
alone(i) == \A j \in 1..Len(subs) : j # i => subs[j].target # subs[i].target

\* The fragments as the stream handler folds them: each with its line-break markers
\* decoded, one after the other.
RECURSIVE foldFragments(_)
foldFragments(frags) ==
  IF frags = <<>> THEN <<>> ELSE replaceNewline(frags[1]) \o foldFragments(Tail(frags))

\* The step in which the i-th submission appends its assistant message.
appendsAssistant(i) ==
  /\ i <= Len(subs') /\ subs'[i].asst # NoMsg
  /\ (i > Len(subs) \/ subs[i].asst = NoMsg)

\* C4: a submission of non-empty text without files and outside tool mode, the only
\* one on its conversation, appends exactly two messages, a complete user message with the text and then an assistant
\* message with empty content and status streaming; when its stream delivers [DONE]
\* after the fragments f1..fn, the assistant message has the content f1..fn (folded
\* in order), status complete, and the conversation is no longer loading.
C4_TextSubmission ==
  [][ /\ \A i \in 1..MaxSubmits :
           (appendsAssistant(i) /\ plainText(i)' /\ alone(i)')
             => LET c == subs'[i].target
                IN Msgs(messagesMap', c) =
                     Msgs(messagesMap, c)
                       \o << Message(nextId, "user", subs'[i].in.text, "complete"),
                              Message(nextId + 1, "assistant", <<>>, "streaming") >>
      /\ \A i \in 1..Len(subs) :
           (plainText(i) /\ alone(i) /\ StreamMessage(i, DONE, MaxFrags))
             => LET c == subs[i].target
                    l == Msgs(messagesMap', c)
                IN /\ \E k \in 1..Len(l) :
                        /\ l[k].id = subs[i].asst
                        /\ l[k].role = "assistant"
                        /\ l[k].content = foldFragments(subs[i].frags)
                        /\ l[k].status = "complete"
                   /\ ~loadingChats'[c]
    ]_vars

\* A conversation holds the user's text and the complete answer of two fragments, and
\* is not loading.
C4_Witness ==
  \E c \in ChatIds :
    LET l == Msgs(messagesMap, c)
    IN /\ Len(l) = 2
       /\ l[1].role = "user" /\ l[1].content = <<"h", "i">> /\ l[1].status = "complete"
       /\ l[2].role = "assistant" /\ l[2].status = "complete"
       /\ \E f, g \in Fragments : f # g /\ l[2].content = replaceNewline(f) \o replaceNewline(g)
       /\ ~loadingChats[c]
       /\ \E i \in 1..Len(subs) : subs[i].pc = "done" /\ subs[i].asst = l[2].id

\* What a fragment is to contribute to the text: itself, its marker read as a line break.
expected(f) == IF f = <<"a">> \o Marker \o <<"b">> THEN <<"a", "\n", "b">> ELSE f

RECURSIVE expectedAll(_)
expectedAll(frags) ==
  IF frags = <<>> THEN <<>> ELSE expected(frags[1]) \o expectedAll(Tail(frags))

\* C5: a fragment the stream delivers is appended to the content of the streaming
\* message, its [NEWLINE] markers replaced by line breaks, and nothing else of the
\* list changes: after f1..fn the content is the initial (empty) content followed by
\* f1..fn in the order of arrival.
C5_FoldInOrder ==
  [][\A i \in 1..Len(subs), data \in Fragments :
       StreamMessage(i, data, MaxFrags)
         => LET l == Msgs(messagesMap, subs[i].target)
                n == Msgs(messagesMap', subs[i].target)
            IN /\ Len(n) = Len(l)
               /\ \A k \in 1..Len(l) :
                    IF l[k].id = subs[i].asst
                    THEN /\ n[k].content = l[k].content \o expected(data)
                         /\ n[k].content = expectedAll(Append(subs[i].frags, data))
                         /\ n[k] = [l[k] EXCEPT !.content = n[k].content]
                    ELSE n[k] = l[k]
    ]_vars

\* A stream has delivered two different fragments, one with a marker, and its
\* message holds both in the order of arrival.
C5_Witness ==
  \E i \in 1..Len(subs) :
    /\ subs[i].pc = "streaming"
    /\ subs[i].frags = << <<"a">> \o Marker \o <<"b">>, <<"h", "i">> >>
    /\ \E k \in 1..Len(Msgs(messagesMap, subs[i].target)) :
         /\ Msgs(messagesMap, subs[i].target)[k].id = subs[i].asst
         /\ Msgs(messagesMap, subs[i].target)[k].content = <<"a", "\n", "b", "h", "i">>

\* The message of conversation c with identifier id, as a sequence of zero or one.
find(map, c, id) ==
  LET l == Msgs(map, c)
      hit == { k \in 1..Len(l) : l[k].id = id }
  IN IF hit = {} THEN <<>> ELSE << l[MinOf(hit)] >>

messagesOf(c) == { Msgs(messagesMap, c)[k] : k \in 1..Len(Msgs(messagesMap, c)) }

\* C6: no step changes a message whose status is complete back to streaming: a
\* complete message still in its conversation after a step is complete.
C6_NeverBackToStreaming ==
  [][\A c \in ChatIds : \A m \in messagesOf(c) :
       (m.status = "complete" /\ find(messagesMap', c, m.id) # <<>>)
         => find(messagesMap', c, m.id)[1].status = "complete"]_vars

\* A stream has delivered a fragment to a message that was complete already (stop had
\* completed it during the upload), and the message is complete.
C6_Witness ==
  \E i \in 1..Len(subs) :
    /\ subs[i].pc = "streaming" /\ subs[i].frags # <<>>
    /\ find(messagesMap, subs[i].target, subs[i].asst) # <<>>
    /\ find(messagesMap, subs[i].target, subs[i].asst)[1].status = "complete"

\* C7: no step changes the content of an assistant message whose status is complete.
C7_CompleteContentFixed ==
  [][\A c \in ChatIds : \A m \in messagesOf(c) :
       (m.role = "assistant" /\ m.status = "complete" /\ find(messagesMap', c, m.id) # <<>>)
         => find(messagesMap', c, m.id)[1].content = m.content]_vars

\* C8: no step changes the content of a message whose role is user.
C8_UserContentFixed ==
  [][\A c \in ChatIds : \A m \in messagesOf(c) :
       (m.role = "user" /\ find(messagesMap', c, m.id) # <<>>)
         => find(messagesMap', c, m.id)[1].content = m.content]_vars

\* The answer to the user's message has been through fragments and a transport
\* error, or was overwritten by an upload failure; the user's message is as appended.
C8_Witness ==
  \E c \in ChatIds :
    LET l == Msgs(messagesMap, c)
    IN /\ Len(l) = 2
       /\ l[1].role = "user" /\ l[1].content \in {<<"h", "i">>, FILES_SHARED}
       /\ l[2].role = "assistant" /\ l[2].content \in {GENERIC_ERROR, UPLOAD_ERROR}

\* C9: a call of submit whose files include a non-image file and whose trimmed text is
\* empty returns false at once: no conversation is created, no upload, session or
\* stream call is made, no message is appended and no loading flag is set.
C9_FilesNeedText ==
  [][\A in \in Inputs :
       (hasNonImageFiles(in) /\ trim(in.text) = <<>> /\ handleSubmit(in, MaxSubmits))
         => /\ ret' = "false"
            /\ UNCHANGED << activeChat, chats, isCreatingChat, messagesMap, loadingChats,
                            eventSourcesRef, pendingMessagesRef, subs, stops, loads >>]_vars

\* A signed-in user's call was turned down by the guard on non-image files.
C9_Witness == user /\ ret = "false" /\ returnedAt = "filesNeedText"

\* C10: a call of submit made while image creation is the tool mode of the slot and
\* the trimmed text is empty returns false and changes no state, whatever image files
\* or reference image come with it.
C10_ImageModeNeedsText ==
  [][\A in \in Inputs :
       (/\ slotToolState(toolStatesMap, activeChat).isImageCreatorEnabled
        /\ trim(in.text) = <<>>
        /\ handleSubmit(in, MaxSubmits))
         => /\ ret' = "false"
            /\ UNCHANGED << activeChat, chats, isCreatingChat, messagesMap, loadingChats,
                            hasStartedResponse, toolStatesMap, eventSourcesRef,
                            pendingMessagesRef, newChatIds, currentUploadStatus, subs,
                            stops, loads >>]_vars

\* C11: when the creation of the conversation fails during a submit from the draft,
\* submit returns false; no message is appended, no loading flag, pending entry or
\* tool-mode slot is set, no conversation is registered, and the submission makes no
\* call after the creation call and ends.
C11_CreationFailureAborts ==
  [][\A i \in 1..Len(subs) :
       CreateDone(i, FALSE)
         => /\ ret' = "false"
            /\ UNCHANGED << activeChat, chats, messagesMap, loadingChats, toolStatesMap,
                            eventSourcesRef, pendingMessagesRef, newChatIds,
                            currentUploadStatus >>
            /\ createNewChatDone(State, i, FALSE).subs[i].calls = <<"new_chat">>
            /\ subs'[i].pc = "done"]_vars

\* A submission from the draft has ended on a failed creation and returned false.
C11_Witness ==
  /\ ret = "false" /\ returnedAt = "" /\ budget.fail = 1
  /\ \E i \in 1..Len(subs) : subs[i].pc = "done" /\ subs[i].target = NoChat

\* Conversation c has no pending-response entry, is not loading and has no stream handle.
nothingInFlight(c) ==
  pendingMessagesRef[c] = NoMsg /\ ~loadingChats[c] /\ eventSourcesRef[c] = NoSub

\* C12: stop(c), called on a conversation with nothing in flight (and while no
\* submission at all is under way) and carried through, its POST succeeding or
\* failing, leaves the message lists, the loading flags, the
\* pending registry, the stream handles, the upload status and the response-started
\* flag as they were.
C12_StopIdleNoOp ==
  \A c \in chats, ok \in BOOLEAN :
    (/\ user /\ Settled /\ stops = <<>> /\ nothingInFlight(c)
     /\ \A i \in 1..Len(subs) : subs[i].pc \in {"done", "closed"})
      => LET s == stopQueryDone(State, stopQueryCall(c), ok)
         IN /\ s.messagesMap = messagesMap
            /\ s.loadingChats = loadingChats
            /\ s.pendingMessagesRef = pendingMessagesRef
            /\ s.eventSourcesRef = eventSourcesRef
            /\ s.subs = subs
            /\ s.currentUploadStatus = currentUploadStatus
            /\ s.hasStartedResponse = hasStartedResponse

\* C13: when stop(c) finishes, its POST having succeeded or failed, conversation c has
\* no stream handle, its most recent message is not streaming and has the content it
\* had, its loading flag is false and its pending-response entry is absent.
C13_StopSettles ==
  [][\A k \in 1..Len(stops), ok \in BOOLEAN :
       StopDone(k, ok)
         => LET c == stops[k].chat
                l == Msgs(messagesMap, c)
                n == Msgs(messagesMap', c)
            IN /\ eventSourcesRef'[c] = NoSub
               /\ Len(n) = Len(l)
               /\ l # <<>> => /\ n[Len(n)].status # "streaming"
                              /\ n[Len(n)].content = l[Len(l)].content
               /\ ~loadingChats'[c]
               /\ pendingMessagesRef'[c] = NoMsg]_vars

\* The flags that are set in a tool state.
activeModes(toolState) == { t \in ToolNames : toolState[t] }

\* C14: in every reachable state every tool-mode slot, the draft's and every
\* conversation's, has at most one of the four mode flags set.
C14_ToolModeExclusive ==
  \A k \in DOMAIN toolStatesMap :
    toolStatesMap[k] # <<>> => Cardinality(activeModes(toolStatesMap[k][1])) <= 1

\* A conversation created from the draft has one mode set, and the draft slot has since
\* been given another.
C14_Witness ==
  \E c \in chats :
    /\ toolStatesMap[c] # <<>> /\ toolStatesMap[NewKey] # <<>>
    /\ activeModes(toolStatesMap[c][1]) = {"isWebSearchEnabled"}
    /\ activeModes(toolStatesMap[NewKey][1]) = {"isCodeAnalysisEnabled"}

\* The source a tool state asks for, with the knowledge base selected in the form.
expectedSource(toolState, kb) ==
  IF toolState.isCodeAnalysisEnabled THEN <<"code">>
  ELSE IF toolState.isWebSearchEnabled THEN <<"web">>
  ELSE IF toolState.isKnowledgeBasesEnabled /\ kb # <<>> THEN <<"kb", kb[1]>>
  ELSE <<>>

\* The invocation was made from the draft and has not ended.
fromDraft(sub) == sub.pc \notin {"done", "closed"} /\ sub.snap.activeChat = NoChat

\* The draft slot as it was when the invocation was made.
draftSlot(sub) == OrElse(sub.snap.toolStatesMap[NewKey], defaultToolState)

\* Invocation i opens its stream in this step.
opens(i) == subs[i].url = <<>> /\ subs'[i].url # <<>>

\* C15: when a submit from the draft creates a conversation, the slot of the new
\* conversation becomes a copy of the draft slot as it was at submission time, and
\* the mode of that slot is the one applied to this submission: its files are
\* indexed unless the mode is code analysis, and its stream carries the source of
\* that mode.
C15_DraftModeApplied ==
  [][\A i \in 1..Len(subs) :
       /\ CreateDone(i, TRUE)
            => toolStatesMap'[subs'[i].target] = << draftSlot(subs[i]) >>
       /\ (fromDraft(subs[i]) /\ UploadDone(i, TRUE))
            => (subs'[i].pc = "indexing") = ~draftSlot(subs[i]).isCodeAnalysisEnabled
       /\ (fromDraft(subs[i]) /\ opens(i))
            => subs'[i].url[1].source = expectedSource(draftSlot(subs[i]), subs[i].in.kb)]_vars

\* The slot the invocation was submitted from, as it was then.
submittedSlot(sub) == slotToolState(sub.snap.toolStatesMap, sub.snap.activeChat)

\* C16: the source parameter of every stream that is opened is the one of the mode
\* of the slot the user submitted from, draft or conversation: code, web, kb.n
\* for knowledge-base mode with n selected, and none when no mode is active.
C16_SourceFollowsMode ==
  [][\A i \in 1..Len(subs) :
       (subs[i].pc \notin {"done", "closed"} /\ opens(i))
          => subs'[i].url[1].source = expectedSource(submittedSlot(subs[i]), subs[i].in.kb)]_vars

\* C17: every stream that is opened carries exactly one of the parameters
\* session_id and query, also when the submission has images, no text, and its
\* session call failed.
C17_OneOfSessionOrQuery ==
  \A i \in 1..Len(subs) :
    subs[i].url # <<>> => subs[i].url[1].param \in {"session_id", "query"}

\* The query set-up of invocation i begins in this step.
setsUp(i) ==
  /\ i \in 1..Len(subs')
  /\ subs'[i].pc \in {"session", "streaming"}
  /\ i <= Len(subs) => subs[i].pc \notin {"session", "streaming"}

\* C18: a session call is issued for a query if and only if its text is longer
\* than 1000 characters or it has an image attachment; a text of exactly 1000
\* characters without images gets none.
C18_SessionIffLongOrImages ==
  [][\A i \in 1..(Len(subs) + 1) :
       setsUp(i) =>
         LET sub == subs'[i]
             issued == \E k \in 1..Len(sub.calls) : sub.calls[k] = "start_query_session"
         IN /\ issued = (sub.pc = "session")
            /\ issued = (Len(sub.in.text) > 1000 \/ \E k \in 1..Len(sub.in.files) : sub.in.files[k].type[1] = "image")]_vars

\* A text of exactly 1000 characters without images is streamed without a session.
C18_Witness ==
  \E i \in 1..Len(subs) :
    /\ subs[i].pc = "streaming" /\ Len(subs[i].in.text) = 1000 /\ subs[i].in.files = <<>>
    /\ subs[i].calls = <<"new_chat", "update_chat_name", "stream:query">>

\* C19: a failed session call does not abort the submission: the stream is opened
\* for the same assistant message, no message changes (the assistant message is
\* not finalized with an error), the loading flag and the pending entry stay as
\* they are, and handleSubmit returns true.
C19_SessionFailureRecovers ==
  [][\A i \in 1..Len(subs) :
       SessionDone(i, FALSE) =>
         LET c == subs[i].target
         IN /\ subs'[i].pc = "streaming" /\ eventSourcesRef'[c] = i
            /\ subs'[i].url # <<>> /\ subs'[i].url[1].param # "session_id"
            /\ subs'[i].asst = subs[i].asst
            /\ messagesMap' = messagesMap
            /\ loadingChats' = loadingChats
            /\ pendingMessagesRef' = pendingMessagesRef
            /\ ret' = "true"]_vars

\* After a failed session call the stream is open, the assistant message is streaming,
\* and the conversation is loading with that message pending.
C19_Witness ==
  \E i \in 1..Len(subs) :
    LET c == subs[i].target
    IN /\ subs[i].pc = "streaming" /\ eventSourcesRef[c] = i
       /\ \E k \in 1..Len(subs[i].calls) : subs[i].calls[k] = "start_query_session"
       /\ subs[i].url[1].param = "query"
       /\ loadingChats[c] /\ pendingMessagesRef[c] = subs[i].asst
       /\ \E k \in 1..Len(Msgs(messagesMap, c)) :
            /\ Msgs(messagesMap, c)[k].id = subs[i].asst
            /\ Msgs(messagesMap, c)[k].status = "streaming"

\* The invocations whose stream for conversation c is open.
liveStreams(c) == { i \in 1..Len(subs) : subs[i].target = c /\ subs[i].pc = "streaming" }

\* C20: in every reachable state at most one stream that was opened for a
\* conversation is not yet closed, also when two query set-ups for it overlap at
\* the session call.
C20_OneLiveStream == \A c \in ChatIds : Cardinality(liveStreams(c)) <= 1

\* The calls of the query step.
QueryCalls == {"start_query_session", "stream:session_id", "stream:query", "stream:none", "query_image"}

has(calls, ops) == \E k \in 1..Len(calls) : calls[k] \in ops

\* What a failed upload or index step leaves behind for invocation i.
stopsThere(i, after) ==
  LET c == subs[i].target
      m == find(messagesMap', c, subs[i].asst)
  IN /\ subs'[i].pc = "done"
     /\ m # <<>> => m[1].status = "complete" /\ m[1].content = UPLOAD_ERROR
     /\ ~loadingChats'[c]
     /\ pendingMessagesRef'[c] = NoMsg
     /\ ~has(after.subs[i].calls, QueryCalls)
     /\ eventSourcesRef' = eventSourcesRef

\* C21: when the upload or the index call of a submission fails the submission
\* stops there: its assistant message is complete with the error text, the
\* conversation is not loading and has no pending entry, and no session, stream
\* or image-generation call is made for it; after a failed upload no index call
\* is made either.
C21_UploadFailureStops ==
  [][\A i \in 1..Len(subs) :
       /\ UploadDone(i, FALSE)
            => /\ stopsThere(i, uploadDone(State, i, FALSE))
               /\ ~has(uploadDone(State, i, FALSE).subs[i].calls, {"index_files"})
       /\ IndexDone(i, FALSE) => stopsThere(i, indexDone(State, i, FALSE))]_vars

\* An upload or index call has failed: the submission has ended and its assistant
\* message carries the error text.
C21_Witness ==
  \E i \in 1..Len(subs) :
    LET m == find(messagesMap, subs[i].target, subs[i].asst)
    IN /\ subs[i].target # NoChat
       /\ subs[i].pc = "done" /\ budget.fail = 1 /\ currentUploadStatus = IDLE_STATUS
       /\ m # <<>> /\ m[1].content = UPLOAD_ERROR /\ m[1].status = "complete"
       /\ ~loadingChats[subs[i].target] /\ pendingMessagesRef[subs[i].target] = NoMsg

\* The network calls of the upload and of the query step among the calls made.
netCalls(calls) ==
  SelectSeq(calls, LAMBDA op : op \in {"upload_files", "index_files"} \cup QueryCalls)

\* Invocation i, not yet ended, has documents and text, classified as doc.
docSubmission(sub) ==
  /\ sub.pc \notin {"done", "closed"}
  /\ filterImages(sub.in.files, FALSE) # <<>>
  /\ trim(sub.in.text) # <<>>
  /\ ~submittedSlot(sub).isCodeAnalysisEnabled

codeClassified(sub) ==
  LET tools == sub.snap.toolStatesMap
  IN /\ sub.target # NoChat
     /\ IF tools[sub.target] # <<>> THEN tools[sub.target][1].isCodeAnalysisEnabled
        ELSE tools[NewKey] # <<>> /\ tools[NewKey][1].isCodeAnalysisEnabled

\* C23: an upload classified as code is never followed by an index call and
\* never puts the upload status into indexing.
C23_CodeNeverIndexed ==
  [][\A i \in 1..Len(subs) :
       (subs[i].pc = "uploading" /\ codeClassified(subs[i]))
         => /\ subs'[i].pc # "indexing"
            /\ ~has(subs'[i].calls, {"index_files"})
            /\ \A ok \in BOOLEAN : UploadDone(i, ok) => ~currentUploadStatus'.isIndexing]_vars

\* A code upload on a conversation with a slot of its own has succeeded and the
\* query has gone on without an index call.
C23_Witness ==
  \E i \in 1..Len(subs) :
    /\ subs[i].pc = "streaming" /\ codeClassified(subs[i])
    /\ subs[i].snap.activeChat # NoChat /\ subs[i].snap.toolStatesMap[subs[i].target] # <<>>
    /\ netCalls(subs[i].calls) = <<"upload_files", "stream:query">>
    /\ currentUploadStatus = IDLE_STATUS

\* C24: the upload status changes only from idle to uploading, from uploading to
\* indexing or idle, and from indexing to idle; it becomes indexing only from
\* uploading, whatever stop and clear do in between.
C24_UploadStatusOrder ==
  [][currentUploadStatus' # currentUploadStatus =>
       \/ currentUploadStatus = IDLE_STATUS /\ currentUploadStatus' = UPLOADING_STATUS
       \/ currentUploadStatus = UPLOADING_STATUS /\ currentUploadStatus' \in {INDEXING_STATUS, IDLE_STATUS}
       \/ currentUploadStatus = INDEXING_STATUS /\ currentUploadStatus' = IDLE_STATUS]_vars

\* C25: the [DONE] sentinel is terminal: in the step that processes it the stream
\* is closed and no handle stays registered for the conversation, the
\* conversation stops loading, the message being filled is complete, and the
\* pending entry is gone; a closed stream delivers no further event.
C25_DoneIsTerminal ==
  [][\A i \in 1..Len(subs) :
       /\ StreamMessage(i, DONE, MaxFrags)
            => LET c == subs[i].target
                   m == find(messagesMap', c, subs[i].asst)
               IN /\ subs'[i].pc = "done"
                  /\ eventSourcesRef'[c] = NoSub
                  /\ ~loadingChats'[c]
                  /\ m # <<>> => m[1].status = "complete"
                  /\ find(messagesMap, c, subs[i].asst) # <<>>
                       => m # <<>> /\ m[1].content = find(messagesMap, c, subs[i].asst)[1].content
                  /\ pendingMessagesRef'[c] = NoMsg
       /\ subs[i].pc \in {"done", "closed"}
            => /\ ~StreamError(i)
               /\ \A data \in Fragments \cup {DONE} : ~StreamMessage(i, data, MaxFrags)]_vars

\* A stream has delivered a fragment and then [DONE]: the message it filled is
\* complete with the text received.
C25_Witness ==
  \E i \in 1..Len(subs) :
    /\ subs[i].pc = "done" /\ subs[i].target # NoChat
    /\ budget.err = 0 /\ budget.fail = 0 /\ budget.frag >= 1
    /\ LET m == find(messagesMap, subs[i].target, subs[i].asst)
       IN /\ m # <<>> /\ m[1].status = "complete" /\ m[1].content # <<>>
          /\ m[1].content # UPLOAD_OK /\ m[1].imageResult = <<>>
    /\ ~loadingChats[subs[i].target] /\ pendingMessagesRef[subs[i].target] = NoMsg
    /\ eventSourcesRef[subs[i].target] = NoSub

\* C26: on a transport error while the pending entry points at the message being
\* filled, the message becomes complete and the entry is removed; its content is
\* the text accumulated so far followed by the interruption suffix, or the
\* generic failure text when nothing was accumulated.
C26_ErrorKeepsPartial ==
  [][\A i \in 1..Len(subs) :
       (StreamError(i) /\ pendingMessagesRef[subs[i].target] = subs[i].asst
                       /\ find(messagesMap, subs[i].target, subs[i].asst) # <<>>)
         => LET c == subs[i].target
                was == find(messagesMap, c, subs[i].asst)[1]
                m == find(messagesMap', c, subs[i].asst)
            IN /\ m # <<>> /\ m[1].status = "complete"
               /\ pendingMessagesRef'[c] = NoMsg
               /\ m[1].content = IF trim(was.content) # <<>> THEN was.content \o INTERRUPTED
                                 ELSE GENERIC_ERROR]_vars

\* C27: once [DONE] has finalized the message of a stream, an error callback of
\* that stream delivered afterwards changes neither the content nor the status
\* of the message, and leaves a pending entry that belongs to a newer message of
\* the conversation.
C27_LateErrorIgnored ==
  \A i \in 1..Len(subs) :
    (subs[i].pc = "done" /\ subs[i].target # NoChat /\ subs[i].asst # NoMsg)
      => LET c == subs[i].target
             s == onerror(State, i)
         IN /\ find(s.messagesMap, c, subs[i].asst) = find(messagesMap, c, subs[i].asst)
            /\ s.pendingMessagesRef[c] = pendingMessagesRef[c]

\* The first stream of a conversation has ended with [DONE], and a second
\* submission on the conversation has its message pending.
C27_Witness ==
  \E i, j \in 1..Len(subs) :
    /\ i # j /\ subs[i].target = subs[j].target /\ subs[i].target # NoChat
    /\ subs[i].pc = "done" /\ budget.err = 0 /\ budget.fail = 0 /\ stops = <<>>
    /\ LET m == find(messagesMap, subs[i].target, subs[i].asst)
       IN m # <<>> /\ m[1].status = "complete" /\ m[1].content # <<>>
    /\ subs[j].pc = "streaming"
    /\ pendingMessagesRef[subs[j].target] = subs[j].asst /\ subs[j].asst # subs[i].asst

ImageOutcomes == {"url", "error", "fail"}

\* C28: whatever the outcome of the image-generation call (a URL, an error
\* payload, or a failure of the call), when it finishes the target message is
\* complete, the conversation is not loading and has no pending entry.
C28_ImageGenSettles ==
  [][\A i \in 1..Len(subs), outcome \in ImageOutcomes :
       ImageGenDone(i, outcome)
         => LET c == subs[i].target
                m == find(messagesMap', c, subs[i].asst)
            IN /\ subs'[i].pc = "done"
               /\ m # <<>> => m[1].status = "complete"
               /\ find(messagesMap, c, subs[i].asst) # <<>> => m # <<>>
               /\ ~loadingChats'[c]
               /\ pendingMessagesRef'[c] = NoMsg]_vars

\* An image-generation call has failed: its message is complete with the failure
\* text and the conversation is idle.
C28_Witness ==
  \E i \in 1..Len(subs) :
    /\ subs[i].pc = "done" /\ subs[i].target # NoChat /\ budget.fail = 1
    /\ LET m == find(messagesMap, subs[i].target, subs[i].asst)
       IN m # <<>> /\ m[1].status = "complete" /\ m[1].content = IMAGE_ERROR /\ m[1].isImageGeneration
    /\ ~loadingChats[subs[i].target] /\ pendingMessagesRef[subs[i].target] = NoMsg

\* Invocation i, not yet ended, was submitted with text while image creation was
\* the mode of its slot.
imageSubmission(sub) ==
  /\ sub.pc \notin {"done", "closed"}
  /\ trim(sub.in.text) # <<>>
  /\ submittedSlot(sub).isImageCreatorEnabled

\* C29: a submission of non-empty text in image-creation mode takes the
\* image-generation path and never a stream; when the call gives a URL the
\* pending message becomes complete with empty content and an image result whose
\* isVariation tells whether a reference image came with the options.
C29_ImagePathTaken ==
  [][\A i \in 1..Len(subs') :
       /\ imageSubmission(subs'[i])
            => /\ subs'[i].pc \notin {"session", "streaming"}
               /\ ~has(subs'[i].calls, QueryCalls \ {"query_image"})
       /\ (i <= Len(subs) /\ ImageGenDone(i, "url"))
            => LET m == find(messagesMap', subs[i].target, subs[i].asst)
               IN m # <<>> =>
                    /\ m[1].status = "complete" /\ m[1].content = <<>>
                    /\ m[1].imageResult # <<>>
                    /\ m[1].imageResult[1].isVariation = (subs[i].in.opts[1].image # <<>>)]_vars

\* C30: while the assistant message that an accepted submission appended is
\* streaming, through the upload and the indexing as well as the query, the
\* pending entry of the conversation is the id of that message and the
\* conversation is loading.
C30_PendingWhileStreaming ==
  \A i \in 1..Len(subs) :
    (/\ subs[i].pc \in {"uploading", "indexing", "session", "streaming", "imagegen"}
     /\ alone(i) /\ stops = <<>>
     /\ find(messagesMap, subs[i].target, subs[i].asst) # <<>>
     /\ find(messagesMap, subs[i].target, subs[i].asst)[1].status = "streaming")
      => /\ pendingMessagesRef[subs[i].target] = subs[i].asst
         /\ loadingChats[subs[i].target]

\* A completion or stream event of invocation i, all of which update its
\* assistant message only.
lateEvent(i) ==
  \/ \E data \in Fragments \cup {DONE} : StreamMessage(i, data, MaxFrags)
  \/ StreamError(i)
  \/ \E ok \in BOOLEAN : UploadDone(i, ok) \/ IndexDone(i, ok) \/ SessionDone(i, ok)
  \/ \E outcome \in ImageOutcomes : ImageGenDone(i, outcome)

\* C31: an update that targets a message id not in the conversation, as a stream
\* event or an upload or image result arriving after clear does, adds no message
\* and changes no message of any conversation.
C31_UpdateOfMissingIsNoOp ==
  [][\A i \in 1..Len(subs) :
       (/\ subs[i].target # NoChat
        /\ find(messagesMap, subs[i].target, subs[i].asst) = <<>>
        /\ lateEvent(i))
         => \A d \in ChatIds : Msgs(messagesMap', d) = Msgs(messagesMap, d)]_vars

\* The conversation was cleared during the upload; the stream opened afterwards
\* has delivered a fragment for the message that is gone.
C31_Witness ==
  \E i \in 1..Len(subs) :
    /\ subs[i].pc = "streaming" /\ subs[i].frags # <<>>
    /\ Msgs(messagesMap, subs[i].target) = <<>>

\* A step of the life of conversation a: a submit on it, a completion or stream
\* event of one of its submissions, or a stop or clear of it.
stepOf(a) ==
  \/ activeChat = a /\ \E in \in DocInputs : handleSubmit(in, TwoSubmits)
  \/ \E i \in 1..Len(subs) : subs[i].target = a /\ lateEvent(i)
  \/ StopInvoke(a)
  \/ \E k \in 1..Len(stops), ok \in BOOLEAN : stops[k].chat = a /\ StopDone(k, ok)
  \/ activeChat = a /\ ClearMessages

\* A submission on conversation b is in its upload or indexing phase.
uploadInProgress(b) ==
  \E j \in 1..Len(subs) : subs[j].target = b /\ subs[j].pc \in {"uploading", "indexing"}

\* C32: for conversations a # b, no step of the life of a (submit, upload,
\* index, session, stream event, completion, error, stop, clear) changes the
\* messages, the loading flag, the pending entry or the stream handle of b, nor
\* the upload status while an upload of b is in progress.
C32_ConversationsIndependent ==
  [][\A a \in chats, b \in chats :
       (a # b /\ stepOf(a))
         => /\ Msgs(messagesMap', b) = Msgs(messagesMap, b)
            /\ loadingChats'[b] = loadingChats[b]
            /\ pendingMessagesRef'[b] = pendingMessagesRef[b]
            /\ eventSourcesRef'[b] = eventSourcesRef[b]
            /\ uploadInProgress(b) => currentUploadStatus' = currentUploadStatus]_vars

\* Invocation i goes from its upload or indexing on to the query step, where a
\* session call, a stream or an image-generation call is made.
queryBegins(i) ==
  /\ subs[i].pc \in {"uploading", "indexing"}
  /\ subs'[i].pc \in {"session", "streaming", "imagegen"}

\* C33: once stop or clear of a conversation has completed, no stream is opened
\* and no image generation started for it until a new submit is accepted: a
\* submission that was in its upload or indexing when stop or clear ran (which
\* leave the conversation not loading) does not go on to the query step.
C33_NoQueryAfterStopOrClear ==
  [][\A i \in 1..Len(subs) :
       (alone(i) /\ queryBegins(i)) => loadingChats[subs[i].target]]_vars

\* C34: whenever a conversation has a stream handle registered, it is loading and
\* its pending entry is the id of the message that stream fills, in every
\* reachable state, after a failed stop too.
C34_HandleImpliesPending ==
  \A c \in ChatIds :
    eventSourcesRef[c] # NoSub
      => /\ loadingChats[c]
         /\ pendingMessagesRef[c] = subs[eventSourcesRef[c]].asst

\* C35: whenever a conversation has a pending entry, the id it holds is the id of
\* a message of the conversation with role assistant and status streaming: the
\* entry does not dangle after clear nor point at a complete message after stop.
C35_PendingIsStreaming ==
  \A c \in ChatIds :
    pendingMessagesRef[c] # NoMsg
      => LET m == find(messagesMap, c, pendingMessagesRef[c])
         IN m # <<>> /\ m[1].role = "assistant" /\ m[1].status = "streaming"

\* C36: the [DONE] and error handlers of a stream release only what belongs to
\* it: they leave a pending entry that is not the id of their message, and a
\* registered stream handle that is not their stream.
C36_HandlersReleaseOwn ==
  [][\A i \in 1..Len(subs) :
       (StreamMessage(i, DONE, TwoFrags) \/ StreamError(i))
         => LET c == subs[i].target
            IN /\ pendingMessagesRef[c] # subs[i].asst => pendingMessagesRef'[c] = pendingMessagesRef[c]
               /\ eventSourcesRef[c] # i => eventSourcesRef'[c] = eventSourcesRef[c]]_vars

\* C37: the completion of the history load of a conversation, successful or not,
\* removes no message that a submission has appended to the conversation while
\* the fetch was outstanding.
C37_LoadKeepsAppended ==
  [][\A c \in ChatIds, ok \in BOOLEAN, hist \in Histories :
       LoadDone(c, ok, hist)
         => \A m \in messagesOf(c) : find(messagesMap', c, m.id) # <<>>]_vars

\* C38: while the creation call of a submit from the draft is outstanding, a
\* second submit from the draft returns false, starts no second creation and
\* appends no message; at most one creation call is ever outstanding.
C38_OneCreationAtATime ==
  [][/\ \A in \in PlainInputs :
          (activeChat = NoChat /\ isCreatingChat /\ handleSubmit(in, TwoSubmits))
            => /\ ret' = "false"
               /\ UNCHANGED << chats, activeChat, messagesMap, subs, loadingChats, pendingMessagesRef >>
     /\ Cardinality({ i \in 1..Len(subs') : subs'[i].pc = "creating" }) <= 1]_vars

\* A second submit from the draft has been turned away while the creation call of
\* the first is outstanding.
C38_Witness ==
  /\ ret = "false" /\ returnedAt = "" /\ isCreatingChat /\ activeChat = NoChat
  /\ Len(subs) = 1 /\ subs[1].pc = "creating" /\ budget.fail = 0

\* C39: no message ever reads "Files uploaded successfully." or "Files shared":
\* every submission under way that carries non-image files has text, and an
\* upload (with its index call) that succeeds is followed by the index call, the
\* query or the image generation.
C39_UploadThenQuery ==
  [][/\ \A c \in ChatIds : \A l \in 1..Len(messagesMap'[c]) :
          \A k \in 1..Len(messagesMap'[c][l]) :
            messagesMap'[c][l][k].content \notin {UPLOAD_OK, FILES_SHARED}
     /\ \A i \in 1..Len(subs') :
          (subs'[i].pc \notin {"done", "closed"} /\ filterImages(subs'[i].in.files, FALSE) # <<>>)
            => trim(subs'[i].in.text) # <<>>
     /\ \A i \in 1..Len(subs) :
          (UploadDone(i, TRUE) \/ IndexDone(i, TRUE))
            => subs'[i].pc \in {"indexing", "session", "streaming", "imagegen"}]_vars

\* A document was submitted with text in image-creator mode; the upload went
\* through and the image is being generated.
C39_Witness ==
  \E i \in 1..Len(subs) :
    /\ subs[i].pc = "imagegen"
    /\ filterImages(subs[i].in.files, FALSE) # <<>>
    /\ has(subs[i].calls, {"upload_files"})
    /\ currentUploadStatus # UPLOADING_STATUS

\* No loading flag, no pending entry and no stream handle.
quiet(s) ==
  \A c \in ChatIds :
    ~s.loadingChats[c] /\ s.pendingMessagesRef[c] = NoMsg /\ s.eventSourcesRef[c] = NoSub

\* The states in which the call that invocation i is waiting for can complete.
completions(s, i) ==
  LET pc == s.subs[i].pc
  IN IF pc = "creating" THEN { createNewChatDone(s, i, ok) : ok \in BOOLEAN }
     ELSE IF pc = "uploading" THEN { uploadDone(s, i, ok) : ok \in BOOLEAN }
     ELSE IF pc = "indexing" THEN { indexDone(s, i, ok) : ok \in BOOLEAN }
     ELSE IF pc = "session" THEN { sessionDone(s, i, ok) : ok \in BOOLEAN }
     ELSE IF pc = "imagegen" THEN { generateImageDone(s, i, outcome) : outcome \in ImageOutcomes }
     ELSE {}

\* C40: after clearAllChats no conversation has a message, a loading flag, a
\* pending entry or a stream handle, every stream that was open is closed, the
\* upload status is idle and the tool-mode register holds the draft slot alone,
\* with the mode it had; and the completion of a call that was outstanding when
\* clearAllChats ran sets no loading flag, pending entry or stream handle.
C40_ClearAllIsFinal ==
  [][ClearAllChats =>
       /\ \A c \in ChatIds : messagesMap'[c] \in { <<>>, << <<>> >> }
       /\ quiet(State')
       /\ \A i \in 1..Len(subs') : subs'[i].pc # "streaming"
       /\ currentUploadStatus' = IDLE_STATUS
       /\ toolStatesMap'[NewKey] = << OrElse(toolStatesMap[NewKey], defaultToolState) >>
       /\ \A c \in ChatIds : toolStatesMap'[c] = <<>>
       /\ \A i \in 1..Len(subs') : \A s \in completions(State', i) : quiet(s)]_vars

====
